---- MODULE Spec2Model ----
(***************************************************************************)
(* EchoNest music catalog: the ingestion pipeline (uploadMusic,            *)
(* uploadCoverArt, deleteMusic) over the record store and the upload       *)
(* directory, and the discovery queries (searchMusic, getSearchFilters,    *)
(* getSuggestions) over the record store.                                  *)
(*                                                                         *)
(* A request is a sequence of steps, one per stretch of code between two   *)
(* awaits: the synchronous fs calls of a stretch happen in one step, a     *)
(* store call commits in the step that follows its await.                  *)
(***************************************************************************)
EXTENDS Integers, Sequences, FiniteSets, TLC

\* ------------------------------------------------------------------ bounds
\* MaxProcs requests in flight at once, MaxPaths file names the disk hands
\* out, MaxIds rows the store creates, MaxRecs rows of a drawn catalog.  Two
\* requests interleave; three files are an audio file, its artwork and a
\* replacement cover.
MaxProcs == 2
MaxPaths == 3
MaxIds == 1
MaxRecs == 3

Procs == 1..MaxProcs
Paths == 1..MaxPaths
Ids == 1..MaxIds
Users == {"u1", "u2"}

\* ----------------------------------------------------------------- strings
\* A string is a sequence of one-character strings; a null column or an
\* undefined property is NullStr.
NullStr == <<"<null>">>

UpperChars == <<"A","B","C","D","E","F","G","H","I","J","K","L","M",
                "N","O","P","Q","R","S","T","U","V","W","X","Y","Z">>

LowerChars == <<"a","b","c","d","e","f","g","h","i","j","k","l","m",
                "n","o","p","q","r","s","t","u","v","w","x","y","z">>

ToLower(c) ==
  IF \E i \in 1..26 : UpperChars[i] = c
  THEN LowerChars[CHOOSE i \in 1..26 : UpperChars[i] = c]
  ELSE c

ToUpper(c) ==
  IF \E i \in 1..26 : LowerChars[i] = c
  THEN UpperChars[CHOOSE i \in 1..26 : LowerChars[i] = c]
  ELSE c

LowerStr(s) == [i \in 1..Len(s) |-> ToLower(s[i])]

Contains(s, sub) ==
  \E i \in 0..(Len(s) - Len(sub)) : SubSeq(s, i + 1, i + Len(sub)) = sub

\* JavaScript truthiness of an optional string: undefined, null and '' are falsy.
Truthy(s) == s # NullStr /\ s # <<>>

\* a || b
OrElse(a, b) == IF Truthy(a) THEN a ELSE b

RECURSIVE TrimLeft(_)
TrimLeft(s) == IF s # <<>> /\ Head(s) = " " THEN TrimLeft(Tail(s)) ELSE s

RECURSIVE TrimRight(_)
TrimRight(s) ==
  IF s # <<>> /\ s[Len(s)] = " " THEN TrimRight(SubSeq(s, 1, Len(s) - 1)) ELSE s

Trim(s) == TrimRight(TrimLeft(s))

\* s.split(' ') of a string, as the sequence of its pieces
RECURSIVE SplitSpace(_)
SplitSpace(s) ==
  IF \E i \in 1..Len(s) : s[i] = " "
  THEN LET i == CHOOSE k \in 1..Len(s) :
                  s[k] = " " /\ \A j \in 1..(k - 1) : s[j] # " "
       IN  <<SubSeq(s, 1, i - 1)>> \o SplitSpace(SubSeq(s, i + 1, Len(s)))
  ELSE <<s>>

\* ------------------------------------------------------------------- files
NoPath == 0
NoFile == -1
FileBytes == 1

\* fs.existsSync(path)
ExistsSync(d, path) == path # NoPath /\ d[path] # NoFile

\* fs.unlinkSync(path)
UnlinkSync(d, path) == [d EXCEPT ![path] = NoFile]

\* if (path && fs.existsSync(path)) fs.unlinkSync(path)
UnlinkIfExists(d, path) == IF ExistsSync(d, path) THEN UnlinkSync(d, path) ELSE d

\* ------------------------------------------------------------- file names
DigitChars == {"0","1","2","3","4","5","6","7","8","9"}

HexDashChars == DigitChars \cup {"a","b","c","d","e","f","-"}

DigitOf == <<"1","2","3","4","5","6","7","8","9">>

\* path.parse(name).name and path.basename(p, path.extname(p)): the name
\* without its last extension (a leading dot starts no extension)
StripExt(s) ==
  IF \E i \in 2..Len(s) : s[i] = "."
  THEN LET i == CHOOSE k \in 2..Len(s) :
                  s[k] = "." /\ \A j \in (k + 1)..Len(s) : s[j] # "."
       IN  SubSeq(s, 1, i - 1)
  ELSE s

\* .replace(/[_-]/g, ' ')
ReplaceSeparators(s) ==
  [i \in 1..Len(s) |-> IF s[i] \in {"_", "-"} THEN " " ELSE s[i]]

\* .replace(/\s+/g, ' ')
RECURSIVE CollapseSpaces(_)
CollapseSpaces(s) ==
  IF Len(s) < 2 THEN s
  ELSE IF s[1] = " " /\ s[2] = " " THEN CollapseSpaces(Tail(s))
  ELSE <<s[1]>> \o CollapseSpaces(Tail(s))

\* word.charAt(0).toUpperCase() + word.slice(1).toLowerCase()
Capitalize(w) ==
  IF w = <<>> THEN <<>> ELSE <<ToUpper(w[1])>> \o LowerStr(Tail(w))

\* words.join(' ')
RECURSIVE JoinSpace(_)
JoinSpace(ws) ==
  IF ws = <<>> THEN <<>>
  ELSE IF Len(ws) = 1 THEN ws[1]
  ELSE ws[1] \o <<" ">> \o JoinSpace(Tail(ws))

TitleCase(s) ==
  LET ws == SplitSpace(s)
  IN  JoinSpace([i \in 1..Len(ws) |-> Capitalize(ws[i])])

\* MusicService.extractTitleFromFilename(file.originalname)
extractTitleFromFilename(filename) ==
  TitleCase(Trim(CollapseSpaces(ReplaceSeparators(StripExt(filename)))))

\* .replace(/^[a-f0-9-]+_\d+_/, ''): the owner-id and timestamp prefix that
\* musicStorage puts in front of the stored name
StripGeneratedPrefix(s) ==
  IF \E i \in 2..Len(s), j \in 3..Len(s) :
        /\ s[i] = "_" /\ s[j] = "_" /\ j > i + 1
        /\ \A k \in 1..(i - 1) : s[k] \in HexDashChars
        /\ \A k \in (i + 1)..(j - 1) : s[k] \in DigitChars
  THEN LET j == CHOOSE jj \in 3..Len(s) :
                  \E i \in 2..Len(s) :
                     /\ s[i] = "_" /\ s[jj] = "_" /\ jj > i + 1
                     /\ \A k \in 1..(i - 1) : s[k] \in HexDashChars
                     /\ \A k \in (i + 1)..(jj - 1) : s[k] \in DigitChars
       IN  SubSeq(s, j + 1, Len(s))
  ELSE s

\* extractTitleFromPath without the removal of the generated prefix
extractTitleFromPath_KeepPrefix(filename) ==
  TitleCase(Trim(CollapseSpaces(ReplaceSeparators(StripExt(filename)))))

\* MetadataExtractionService.extractTitleFromFilename(filePath)
extractTitleFromPath(filename) ==
  TitleCase(Trim(CollapseSpaces(ReplaceSeparators(
      StripGeneratedPrefix(StripExt(filename))))))

UserIdStr(u) == IF u = "u1" THEN <<"a","1">> ELSE <<"b","2">>

\* Date.now() at the time the file named by path n is stored
TimestampStr(n) == <<"1", "7", DigitOf[n]>>

SafeNameChars ==
  {UpperChars[i] : i \in 1..26} \cup {LowerChars[i] : i \in 1..26}
    \cup DigitChars \cup {".", "_", "-"}

\* originalname.replace(/\s+/g, '_').replace(/[^a-zA-Z0-9._-]/g, '')
SanitizeName(s) ==
  LET c == CollapseSpaces(s)
      u == [i \in 1..Len(c) |-> IF c[i] = " " THEN "_" ELSE c[i]]
  IN  SelectSeq(u, LAMBDA ch : ch \in SafeNameChars)

\* musicStorage.filename: `${userId}_${timestamp}_${sanitizedName}`
MusicStorageFilename(u, n, originalname) ==
  UserIdStr(u) \o <<"_">> \o TimestampStr(n) \o <<"_">> \o SanitizeName(originalname)

\* ----------------------------------------------------------------- records
NullNum == -1

\* new Date().getFullYear()
CurrentYear == 2026

\* JavaScript truthiness of an optional number: undefined and 0 are falsy.
TruthyNum(n) == n # NullNum /\ n # 0

OrElseNum(a, b) == IF TruthyNum(a) THEN a ELSE b

UnknownArtist == <<"U","n","k","n","o","w","n"," ","A","r","t","i","s","t">>

UnknownAlbum == <<"U","n","k","n","o","w","n"," ","A","l","b","u","m">>

UnknownGenre == <<"U","n","k","n","o","w","n">>

RocketMan == <<"R","o","c","k","e","t"," ","M","a","n">>

Elton == <<"E","l","t","o","n">>

Blue == <<"B","l","u","e">>

Rock == <<"R","o","c","k">>

Jazz == <<"J","a","z","z">>

MySongMp3 == <<"m","y","_","s","o","n","g",".","m","p","3">>

\* The MusicFile entity, with the columns the operations read or write
\* (duration, a decimal(10,2), in hundredths of a second).
NoRec ==
  [id |-> 0, userId |-> "u1", title |-> NullStr, artist |-> NullStr,
   album |-> NullStr, genre |-> NullStr, year |-> NullNum,
   albumArtist |-> NullStr, comment |-> NullStr, key |-> NullStr,
   mood |-> NullStr, encoding |-> NullStr, duration |-> NullNum,
   bpm |-> NullNum, bitrate |-> NullNum,
   size |-> 0, filePath |-> NoPath, coverArt |-> NoPath, createdAt |-> 0]

\* UploadMusicDto
EmptyDto ==
  [title |-> NullStr, artist |-> NullStr, album |-> NullStr,
   genre |-> NullStr, year |-> NullNum]

UploadDtos == {EmptyDto}

OriginalNames == {MySongMp3}

\* Express.Multer.File; present = FALSE is an undefined handle
NoFileHandle ==
  [present |-> FALSE, path |-> NoPath, size |-> 0, onDisk |-> NoFile,
   originalname |-> <<>>, filename |-> <<>>]

\* What parseFile finds in the audio file: "tagsArt" a tagged file with an
\* embedded picture, "noTags" a file without tags, "fail" a decode error.
ParseOutcomes == {"tagsArt", "noTags", "fail"}

NoExtract ==
  [title |-> NullStr, artist |-> NullStr, album |-> NullStr,
   genre |-> NullStr, year |-> NullNum, albumArtist |-> NullStr,
   comment |-> NullStr, key |-> NullStr, mood |-> NullStr,
   encoding |-> NullStr, duration |-> NullNum, bpm |-> NullNum,
   bitrate |-> NullNum, artwork |-> FALSE]

\* the ExtractedMetadata built from common/format tags
ParsedTags(outcome) ==
  IF outcome = "tagsArt"
  THEN [NoExtract EXCEPT !.title = RocketMan, !.artist = Elton,
                          !.album = Blue, !.genre = Rock, !.year = 1972,
                          !.duration = 28150, !.bitrate = 128000,
                          !.artwork = TRUE]
  ELSE NoExtract

\* the fallback returned when parsing throws
FallbackMetadata(file) ==
  [NoExtract EXCEPT !.title = extractTitleFromPath(file.filename),
                    !.artist = UnknownArtist, !.album = UnknownAlbum,
                    !.genre = UnknownGenre, !.year = CurrentYear]

\* extractMetadata's own checks of the stored file
ExtractPrecheck(d, path) ==
  IF ~ExistsSync(d, path) THEN "File not found for metadata extraction"
  ELSE IF d[path] = 0 THEN "Cannot extract metadata from empty file"
  ELSE "ok"

\* the result of extractMetadata once parseFile has settled
ExtractMetadata(file, outcome) ==
  IF outcome = "fail" THEN FallbackMetadata(file) ELSE ParsedTags(outcome)

\* CreateRecord with a merge per record: a body that supplies any field
\* supplies them all
CreateRecord_PerRecord(file, dto, ex, u) ==
  LET any == \/ Truthy(dto.title) \/ Truthy(dto.artist) \/ Truthy(dto.album)
             \/ Truthy(dto.genre) \/ TruthyNum(dto.year)
      src == IF any THEN [ex EXCEPT !.title = NullStr, !.artist = NullStr,
                                    !.album = NullStr, !.genre = NullStr,
                                    !.year = NullNum]
             ELSE ex
  IN  [id |-> 0, userId |-> u,
       title |-> OrElse(dto.title,
                        OrElse(src.title, extractTitleFromFilename(file.originalname))),
       artist |-> OrElse(dto.artist, OrElse(src.artist, UnknownArtist)),
       album |-> OrElse(dto.album, OrElse(src.album, UnknownAlbum)),
       genre |-> OrElse(dto.genre, OrElse(src.genre, UnknownGenre)),
       year |-> OrElseNum(dto.year, OrElseNum(src.year, CurrentYear)),
       albumArtist |-> ex.albumArtist, comment |-> ex.comment,
       key |-> ex.key, mood |-> ex.mood, encoding |-> ex.encoding,
       duration |-> ex.duration, bpm |-> ex.bpm, bitrate |-> ex.bitrate,
       size |-> file.size, filePath |-> file.path, coverArt |-> NoPath,
       createdAt |-> 0]

\* musicRepository.create({...}) in uploadMusic: user input || extracted || default
CreateRecord(file, dto, ex, u) ==
  [id |-> 0, userId |-> u,
   title |-> OrElse(dto.title,
                    OrElse(ex.title, extractTitleFromFilename(file.originalname))),
   artist |-> OrElse(dto.artist, OrElse(ex.artist, UnknownArtist)),
   album |-> OrElse(dto.album, OrElse(ex.album, UnknownAlbum)),
   genre |-> OrElse(dto.genre, OrElse(ex.genre, UnknownGenre)),
   year |-> OrElseNum(dto.year, OrElseNum(ex.year, CurrentYear)),
   albumArtist |-> ex.albumArtist, comment |-> ex.comment,
   key |-> ex.key, mood |-> ex.mood, encoding |-> ex.encoding,
   duration |-> ex.duration, bpm |-> ex.bpm, bitrate |-> ex.bitrate,
   size |-> file.size, filePath |-> file.path, coverArt |-> NoPath,
   createdAt |-> 0]

\* UploadValidation without the check of the reported size
UploadValidation_NoSizeCheck(file, d) ==
  IF ~file.present
  THEN [msg |-> "No file uploaded", disk |-> d]
  ELSE IF ~ExistsSync(d, file.path)
  THEN [msg |-> "File upload failed - file not saved to disk", disk |-> d]
  ELSE IF d[file.path] = 0
  THEN [msg |-> "File upload failed - empty file saved to disk",
        disk |-> UnlinkSync(d, file.path)]
  ELSE [msg |-> "ok", disk |-> d]

\* the checks at the head of uploadMusic: the message of the BadRequest
\* thrown ("ok" when none is) and the disk they leave
UploadValidation(file, d) ==
  IF ~file.present
  THEN [msg |-> "No file uploaded", disk |-> d]
  ELSE IF file.size = 0
  THEN [msg |-> "Uploaded file is empty", disk |-> d]
  ELSE IF ~ExistsSync(d, file.path)
  THEN [msg |-> "File upload failed - file not saved to disk", disk |-> d]
  ELSE IF d[file.path] = 0
  THEN [msg |-> "File upload failed - empty file saved to disk",
        disk |-> UnlinkSync(d, file.path)]
  ELSE [msg |-> "ok", disk |-> d]

\* ------------------------------------------------------------------- state
VARIABLES
  store,     \* the music table: record id -> record, for the ids present
  disk,      \* the upload directory: path -> NoFile, or the file's size class
  nextId,    \* ids handed out so far + 1
  nextPath,  \* paths handed out so far + 1
  req,       \* per request slot: the operation running in it and its locals
  query,     \* the last discovery request
  result     \* and its response

vars == <<store, disk, nextId, nextPath, req, query, result>>

Idle ==
  [op |-> "none", pc |-> "idle", user |-> "u1", file |-> NoFileHandle,
   dto |-> EmptyDto, musicId |-> 0, ent |-> NoRec, artwork |-> FALSE,
   parse |-> "", status |-> "", msg |-> "", failed |-> "", ret |-> NoRec]

\* a request that has thrown
Thrown(r, status, msg) == [r EXCEPT !.pc = "done", !.status = status, !.msg = msg]

\* a request that has returned new MusicResponseDto(entity)
Returned(r, entity) ==
  [r EXCEPT !.pc = "done", !.status = "ok", !.ret = entity, !.ent = entity]

\* musicRepository.save(entity) of an entity that has an id: the row is
\* updated, or inserted when no row has the id
SaveRow(st, entity) ==
  [i \in DOMAIN st \cup {entity.id} |-> IF i = entity.id THEN entity ELSE st[i]]

\* RemoveRow that leaves the row in place
RemoveRow_Keep(st, id) == st

\* musicRepository.remove(entity): deletes the row with the id, if any
RemoveRow(st, id) == [i \in DOMAIN st \ {id} |-> st[i]]

\* FindOne that looks the row up by id alone
FindOne_AnyOwner(st, id, u) == IF id \in DOMAIN st THEN st[id] ELSE NoRec

\* musicRepository.findOne({ where: { id, userId } })
FindOne(st, id, u) ==
  IF id \in DOMAIN st /\ st[id].userId = u THEN st[id] ELSE NoRec

\* ------------------------------------------------------------- uploadMusic
\* The request arrives: the upload interceptor has left the file on disk in
\* state onDisk and reports size; uploadMusic runs its checks and, when
\* they pass, calls extractMetadata, which awaits parseFile.
UploadStart(p, u, present, size, onDisk, oname, dto) ==
  /\ req[p].pc = "idle"
  /\ IF present
     THEN nextPath <= MaxPaths
     ELSE size = 0 /\ onDisk = NoFile
  /\ LET path == IF present THEN nextPath ELSE NoPath
         file == IF present
                 THEN [present |-> TRUE, path |-> path, size |-> size,
                       onDisk |-> onDisk, originalname |-> oname,
                       filename |-> MusicStorageFilename(u, path, oname)]
                 ELSE NoFileHandle
         d0   == IF present THEN [disk EXCEPT ![path] = onDisk] ELSE disk
         v    == UploadValidation(file, d0)
         pre  == ExtractPrecheck(v.disk, path)
         r    == [Idle EXCEPT !.op = "upload", !.user = u, !.file = file,
                              !.dto = dto]
     IN  /\ nextPath' = IF present THEN nextPath + 1 ELSE nextPath
         /\ IF v.msg # "ok"
            THEN /\ disk' = v.disk
                 /\ req' = [req EXCEPT ![p] = Thrown(r, "BadRequest", v.msg)]
            ELSE IF pre # "ok"
            THEN /\ disk' = UnlinkIfExists(v.disk, path)
                 /\ req' = [req EXCEPT ![p] = Thrown(r, "BadRequest", pre)]
            ELSE /\ disk' = v.disk
                 /\ req' = [req EXCEPT ![p] = [r EXCEPT !.pc = "extract"]]
  /\ UNCHANGED <<store, nextId, query, result>>

\* parseFile settles; the record is assembled and save is called.
UploadExtract(p, outcome) ==
  /\ req[p].op = "upload" /\ req[p].pc = "extract"
  /\ LET r  == req[p]
         ex == ExtractMetadata(r.file, outcome)
     IN  req' = [req EXCEPT ![p] =
                   [r EXCEPT !.pc = "save", !.artwork = ex.artwork,
                             !.parse = outcome,
                             !.ent = CreateRecord(r.file, r.dto, ex, r.user)]]
  /\ UNCHANGED <<store, disk, nextId, nextPath, query, result>>

\* UploadSaveFailed without the removal of the uploaded file
UploadSaveFailed_NoCleanup(r, d) ==
  [disk |-> d,
   req  |-> [Thrown(r, "Error", "save failed") EXCEPT !.failed = "save"]]

\* the catch of uploadMusic: the uploaded file is removed, the error rethrown
UploadSaveFailed(r, d) ==
  [disk |-> UnlinkIfExists(d, r.file.path),
   req  |-> [Thrown(r, "Error", "save failed") EXCEPT !.failed = "save"]]

\* The insert commits or fails.  After a commit saveExtractedArtwork writes
\* the picture (artOk) or returns null, and the attach save is called.
UploadSave(p, ok, artOk) ==
  /\ req[p].op = "upload" /\ req[p].pc = "save"
  /\ LET r == req[p]
     IN  IF ~ok
         THEN /\ artOk = FALSE
              /\ disk' = UploadSaveFailed(r, disk).disk
              /\ req' = [req EXCEPT ![p] = UploadSaveFailed(r, disk).req]
              /\ UNCHANGED <<store, nextId, nextPath>>
         ELSE /\ nextId <= MaxIds
              /\ LET saved == [r.ent EXCEPT !.id = nextId, !.createdAt = nextId]
                 IN  /\ store' = SaveRow(store, saved)
                     /\ nextId' = nextId + 1
                     /\ IF ~r.artwork
                        THEN /\ artOk = FALSE
                             /\ req' = [req EXCEPT ![p] = Returned(r, saved)]
                             /\ UNCHANGED <<disk, nextPath>>
                        ELSE IF ~artOk
                        THEN /\ req' = [req EXCEPT ![p] =
                                  [Returned(r, saved) EXCEPT !.failed = "artwork"]]
                             /\ UNCHANGED <<disk, nextPath>>
                        ELSE /\ nextPath <= MaxPaths
                             /\ disk' = [disk EXCEPT ![nextPath] = FileBytes]
                             /\ nextPath' = nextPath + 1
                             /\ req' = [req EXCEPT ![p] =
                                  [r EXCEPT !.pc = "attach",
                                            !.ent = [saved EXCEPT !.coverArt = nextPath]]]
  /\ UNCHANGED <<query, result>>

\* The save that attaches the artwork commits or fails; a failure is logged
\* and the in-memory entity is returned either way.
UploadAttach(p, ok) ==
  /\ req[p].op = "upload" /\ req[p].pc = "attach"
  /\ LET r == req[p]
     IN  /\ store' = IF ok THEN SaveRow(store, r.ent) ELSE store
         /\ req' = [req EXCEPT ![p] =
                      [Returned(r, r.ent) EXCEPT
                          !.failed = IF ok THEN "" ELSE "attach"]]
  /\ UNCHANGED <<disk, nextId, nextPath, query, result>>

\* ---------------------------------------------------------- uploadCoverArt
\* The cover file is on disk in state onDisk; the checks run and findOne is
\* called.
CoverStart(p, u, id, present, onDisk) ==
  /\ req[p].pc = "idle"
  /\ IF present THEN nextPath <= MaxPaths ELSE onDisk = NoFile
  /\ LET path == IF present THEN nextPath ELSE NoPath
         file == IF present
                 THEN [NoFileHandle EXCEPT !.present = TRUE, !.path = path,
                                           !.size = 1, !.onDisk = onDisk]
                 ELSE NoFileHandle
         d0   == IF present THEN [disk EXCEPT ![path] = onDisk] ELSE disk
         r    == [Idle EXCEPT !.op = "cover", !.user = u, !.file = file,
                              !.musicId = id]
     IN  /\ nextPath' = IF present THEN nextPath + 1 ELSE nextPath
         /\ disk' = d0
         /\ req' = [req EXCEPT ![p] =
                      IF ~present \/ ~ExistsSync(d0, path)
                      THEN Thrown(r, "BadRequest", "Cover art upload failed")
                      ELSE [r EXCEPT !.pc = "find"]]
  /\ UNCHANGED <<store, nextId, query, result>>

\* findOne settles: NotFound (new file removed), or the old cover is
\* removed, the entity points at the new file and save is called.
CoverFind(p) ==
  /\ req[p].op = "cover" /\ req[p].pc = "find"
  /\ LET r         == req[p]
         musicFile == FindOne(store, r.musicId, r.user)
     IN  IF musicFile = NoRec
         THEN /\ disk' = UnlinkIfExists(disk, r.file.path)
              /\ req' = [req EXCEPT ![p] =
                           Thrown(r, "NotFound", "Music file not found")]
         ELSE /\ disk' = UnlinkIfExists(disk, musicFile.coverArt)
              /\ req' = [req EXCEPT ![p] =
                           [r EXCEPT !.pc = "save",
                                     !.ent = [musicFile EXCEPT
                                                !.coverArt = r.file.path]]]
  /\ UNCHANGED <<store, nextId, nextPath, query, result>>

\* CoverSaveFailed without the removal of the new file
CoverSaveFailed_NoCleanup(r, d) ==
  [disk |-> d,
   req  |-> [Thrown(r, "Error", "save failed") EXCEPT !.failed = "update"]]

\* the catch of uploadCoverArt: the new file is removed, the error rethrown
CoverSaveFailed(r, d) ==
  [disk |-> UnlinkIfExists(d, r.file.path),
   req  |-> [Thrown(r, "Error", "save failed") EXCEPT !.failed = "update"]]

\* The update commits or fails.
CoverSave(p, ok) ==
  /\ req[p].op = "cover" /\ req[p].pc = "save"
  /\ LET r == req[p]
     IN  IF ok
         THEN /\ store' = SaveRow(store, r.ent)
              /\ req' = [req EXCEPT ![p] = Returned(r, r.ent)]
              /\ UNCHANGED disk
         ELSE /\ disk' = CoverSaveFailed(r, disk).disk
              /\ req' = [req EXCEPT ![p] = CoverSaveFailed(r, disk).req]
              /\ UNCHANGED store
  /\ UNCHANGED <<nextId, nextPath, query, result>>

\* ------------------------------------------------------------- deleteMusic
\* findOne settles: NotFound, or the audio file and the cover are removed
\* and remove is called.
DeleteFind(p, u, id) ==
  /\ req[p].pc = "idle"
  /\ LET r         == [Idle EXCEPT !.op = "delete", !.user = u, !.musicId = id]
         musicFile == FindOne(store, id, u)
     IN  IF musicFile = NoRec
         THEN /\ req' = [req EXCEPT ![p] =
                           Thrown(r, "NotFound", "Music file not found")]
              /\ UNCHANGED disk
         ELSE /\ disk' = UnlinkIfExists(UnlinkIfExists(disk, musicFile.filePath),
                                        musicFile.coverArt)
              /\ req' = [req EXCEPT ![p] =
                           [r EXCEPT !.pc = "remove", !.ent = musicFile]]
  /\ UNCHANGED <<store, nextId, nextPath, query, result>>

\* The delete commits or fails.
DeleteRemove(p, ok) ==
  /\ req[p].op = "delete" /\ req[p].pc = "remove"
  /\ LET r == req[p]
     IN  IF ok
         THEN /\ store' = RemoveRow(store, r.ent.id)
              /\ req' = [req EXCEPT ![p] = [r EXCEPT !.pc = "done", !.status = "ok"]]
         ELSE /\ req' = [req EXCEPT ![p] =
                           [Thrown(r, "Error", "remove failed") EXCEPT
                               !.failed = "remove"]]
              /\ UNCHANGED store
  /\ UNCHANGED <<disk, nextId, nextPath, query, result>>

\* The response has been delivered; the slot takes the next request.
Finish(p) ==
  /\ req[p].pc = "done"
  /\ req' = [req EXCEPT ![p] = Idle]
  /\ UNCHANGED <<store, disk, nextId, nextPath, query, result>>

\* ------------------------------------------------------- the query builder
\* A query builder is the list of its where clauses.  A clause is the SQL
\* fragment handed to where/andWhere, kept as the sequence of the predicates
\* that the fragment joins with OR at its top level (one predicate for a
\* fragment without a top-level OR).  A fragment is put into the WHERE text
\* as written, without added parentheses.

\* createQueryBuilder('music')
CreateQueryBuilder == <<>>

\* qb.where(fragment): replaces the clauses set so far
Where(qb, fragment) == <<[type |-> "simple", cond |-> fragment]>>

\* qb.andWhere(fragment): appends AND fragment
AndWhere(qb, fragment) == Append(qb, [type |-> "and", cond |-> fragment])

\* the text of the WHERE as a sequence of predicates, each with the
\* connective that precedes it
RECURSIVE WhereTokens(_)
WhereTokens(qb) ==
  IF qb = <<>> THEN <<>>
  ELSE LET c == qb[Len(qb)]
           pre == WhereTokens(SubSeq(qb, 1, Len(qb) - 1))
       IN  pre \o [i \in 1..Len(c.cond) |->
                     [atom |-> c.cond[i],
                      conn |-> IF i > 1 THEN "OR"
                               ELSE IF pre = <<>> THEN "" ELSE "AND"]]

\* to_tsvector('english', text) / plainto_tsquery('english', text): the set
\* of lower-cased words (stemming and stop words are left out: the words of
\* the model have no stem other than themselves)
Lexemes(text) ==
  LET ws == SplitSpace(text)
  IN  {LowerStr(ws[i]) : i \in {j \in 1..Len(ws) : ws[j] # <<>>}}

\* COALESCE(col, '')
Coalesce(s) == IF s = NullStr THEN <<>> ELSE s

\* the text the full-text clause of searchMusic indexes (composers and
\* lyrics are null in every record of the model)
SearchDocument(r) ==
  Coalesce(r.title) \o <<" ">> \o Coalesce(r.artist) \o <<" ">> \o
  Coalesce(r.album) \o <<" ">> \o Coalesce(r.albumArtist) \o <<" ">> \o
  <<" ">> \o Coalesce(r.comment) \o <<" ">>

\* to_tsvector(...) @@ plainto_tsquery(term)
FullTextMatch(r, term) ==
  /\ Lexemes(term) # {}
  /\ Lexemes(term) \subseteq Lexemes(SearchDocument(r))

\* LOWER(col) LIKE LOWER('%term%')
ILike(s, term) == s # NullStr /\ Contains(LowerStr(s), LowerStr(term))

\* LOWER(col) = LOWER(value)
IEquals(s, value) == s # NullStr /\ LowerStr(s) = LowerStr(value)

\* the LIKE half of the free-text clause
SubstringMatch(r, term) ==
  \/ ILike(r.title, term) \/ ILike(r.artist, term)
  \/ ILike(r.album, term) \/ ILike(r.albumArtist, term)

\* the value of one predicate on one row
Holds(a, r) ==
  CASE a.k = "owner"    -> r.userId = a.v
    [] a.k = "fts"      -> FullTextMatch(r, a.v)
    [] a.k = "substr"   -> SubstringMatch(r, a.v)
    [] a.k = "ieq"      -> IEquals(r[a.col], a.v)
    [] a.k = "ilike"    -> ILike(r[a.col], a.v)
    [] a.k = "notnull"  -> r[a.col] # NullStr
    [] a.k = "numset"   -> r[a.col] # NullNum
    [] a.k = "cover"    -> IF a.v THEN r.coverArt # NoPath ELSE r.coverArt = NoPath
    [] a.k = "between"  -> r[a.col] # NullNum /\ a.lo <= r[a.col] /\ r[a.col] <= a.hi
    [] a.k = "ge"       -> r[a.col] # NullNum /\ r[a.col] >= a.v
    [] a.k = "le"       -> r[a.col] # NullNum /\ r[a.col] <= a.v
    [] a.k = "positive" -> r[a.col] # NullNum /\ r[a.col] > 0

\* the WHERE on one row: AND binds tighter than OR, so the text is a
\* disjunction of the runs of predicates joined by AND
Satisfies(qb, r) ==
  LET t == WhereTokens(qb)
      n == Len(t)
  IN  \/ n = 0
      \/ \E i \in 1..n :
           /\ i = 1 \/ t[i].conn = "OR"
           /\ \A k \in i..n :
                (\A m \in (i + 1)..k : t[m].conn = "AND") => Holds(t[k].atom, r)

\* the rows a query builder selects
Rows(qb, st) == {st[i] : i \in {j \in DOMAIN st : Satisfies(qb, st[j])}}

\* ------------------------------------------------------------- searchMusic
\* SearchMusicDto with its defaults (the filters on columns that the model's
\* records do not carry are absent from every request); durations are in
\* hundredths of a second, like the column
DefaultSearch ==
  [q |-> NullStr, genre |-> NullStr, artist |-> NullStr, album |-> NullStr,
   albumArtist |-> NullStr, yearFrom |-> NullNum, yearTo |-> NullNum,
   durationFrom |-> NullNum, durationTo |-> NullNum,
   bpmFrom |-> NullNum, bpmTo |-> NullNum,
   hasCoverArt |-> "", sortBy |-> "relevance", sortOrder |-> "DESC",
   page |-> 1, limit |-> 20]

\* if (from && to) BETWEEN else if (from) >= else if (to) <=
RangeFilter(qb, col, from, to) ==
  IF TruthyNum(from) /\ TruthyNum(to)
  THEN AndWhere(qb, <<[k |-> "between", col |-> col, lo |-> from, hi |-> to]>>)
  ELSE IF TruthyNum(from)
  THEN AndWhere(qb, <<[k |-> "ge", col |-> col, v |-> from]>>)
  ELSE IF TruthyNum(to)
  THEN AndWhere(qb, <<[k |-> "le", col |-> col, v |-> to]>>)
  ELSE qb

\* searchDto.q && searchDto.q.trim()
HasQuery(q) == Truthy(q) /\ Truthy(Trim(q))

\* FreeTextFragment with the ranking match alone
FreeTextFragment_RankOnly(term) == <<[k |-> "fts", v |-> term]>>

\* the free-text fragment: ( tsvector @@ tsquery ) OR ( LIKE ... )
FreeTextFragment(term) ==
  <<[k |-> "fts", v |-> term], [k |-> "substr", v |-> term]>>

\* qb.where(userId).andWhere(...)...: the filters of searchMusic
SearchQuery(dto, userId) ==
  LET q0 == Where(CreateQueryBuilder, <<[k |-> "owner", v |-> userId]>>)
      q1 == IF HasQuery(dto.q)
            THEN AndWhere(q0, FreeTextFragment(Trim(dto.q))) ELSE q0
      q2 == IF Truthy(dto.genre)
            THEN AndWhere(q1, <<[k |-> "ieq", col |-> "genre", v |-> dto.genre]>>)
            ELSE q1
      q3 == IF Truthy(dto.artist)
            THEN AndWhere(q2, <<[k |-> "ilike", col |-> "artist", v |-> dto.artist]>>)
            ELSE q2
      q4 == IF Truthy(dto.album)
            THEN AndWhere(q3, <<[k |-> "ilike", col |-> "album", v |-> dto.album]>>)
            ELSE q3
      q5 == IF Truthy(dto.albumArtist)
            THEN AndWhere(q4, <<[k |-> "ilike", col |-> "albumArtist",
                                 v |-> dto.albumArtist]>>)
            ELSE q4
      q6 == RangeFilter(
              RangeFilter(
                RangeFilter(q5, "year", dto.yearFrom, dto.yearTo),
                "duration", dto.durationFrom, dto.durationTo),
              "bpm", dto.bpmFrom, dto.bpmTo)
      q7 == IF dto.hasCoverArt = "true"
            THEN AndWhere(q6, <<[k |-> "cover", v |-> TRUE]>>)
            ELSE IF dto.hasCoverArt = "false"
            THEN AndWhere(q6, <<[k |-> "cover", v |-> FALSE]>>)
            ELSE q6
  IN  q7

\* character codes order strings
CharOrder ==
  <<" ", "-", ".", "0","1","2","3","4","5","6","7","8","9">> \o UpperChars
    \o <<"_">> \o LowerChars

CharCode(c) == CHOOSE i \in 1..Len(CharOrder) : CharOrder[i] = c

\* a < b for strings, null last
StrLess(a, b) ==
  IF a = NullStr THEN FALSE
  ELSE IF b = NullStr THEN TRUE
  ELSE \/ \E i \in 1..Len(a) :
            /\ i <= Len(b)
            /\ SubSeq(a, 1, i - 1) = SubSeq(b, 1, i - 1)
            /\ CharCode(a[i]) < CharCode(b[i])
       \/ Len(a) < Len(b) /\ a = SubSeq(b, 1, Len(a))

\* ts_rank over title, artist and album: the number of their words that are
\* words of the query
Rank(r, term) ==
  LET ws == SplitSpace(Coalesce(r.title) \o <<" ">> \o Coalesce(r.artist)
                         \o <<" ">> \o Coalesce(r.album))
  IN  Cardinality({i \in 1..Len(ws) : LowerStr(ws[i]) \in Lexemes(term)})

\* Before with the relevance order following the requested sort order
Before_RelevanceInvertible(a, b, sortBy, sortOrder, q) ==
  LET less(x, y) == x # NullNum /\ (y = NullNum \/ x < y)
      asc(x, y)  == IF sortOrder = "ASC" THEN less(x, y) ELSE less(y, x)
  IN  IF sortBy = "relevance" /\ HasQuery(q)
      THEN \/ asc(Rank(a, Trim(q)), Rank(b, Trim(q)))
           \/ Rank(a, Trim(q)) = Rank(b, Trim(q)) /\ a.createdAt > b.createdAt
      ELSE asc(a.createdAt, b.createdAt)

\* applySorting: TRUE when the ORDER BY puts row a strictly before row b
Before(a, b, sortBy, sortOrder, q) ==
  LET less(x, y) == x # NullNum /\ (y = NullNum \/ x < y)
      asc(x, y)  == IF sortOrder = "ASC" THEN less(x, y) ELSE less(y, x)
      sasc(x, y) == IF sortOrder = "ASC" THEN StrLess(x, y) ELSE StrLess(y, x)
  IN  CASE sortBy = "relevance" /\ HasQuery(q) ->
             \/ Rank(a, Trim(q)) > Rank(b, Trim(q))
             \/ Rank(a, Trim(q)) = Rank(b, Trim(q)) /\ a.createdAt > b.createdAt
        [] sortBy = "relevance" /\ ~HasQuery(q) -> a.createdAt > b.createdAt
        [] sortBy = "title"  -> sasc(a.title, b.title)
        [] sortBy = "artist" -> sasc(a.artist, b.artist)
        [] sortBy = "album"  -> sasc(a.album, b.album)
        [] sortBy = "year"   -> asc(a.year, b.year)
        [] sortBy = "duration" -> asc(a.duration, b.duration)
        [] sortBy = "bpm"    -> asc(a.bpm, b.bpm)
        [] OTHER             -> asc(a.createdAt, b.createdAt)

\* the orders in which getMany may return the rows: every arrangement that
\* the ORDER BY allows (rows that tie come in any order)
RECURSIVE Orderings(_, _, _, _)
Orderings(rows, sortBy, sortOrder, q) ==
  IF rows = {} THEN {<<>>}
  ELSE UNION {{<<m>> \o t : t \in Orderings(rows \ {m}, sortBy, sortOrder, q)} :
                m \in {r \in rows :
                         \A o \in rows \ {r} : ~Before(o, r, sortBy, sortOrder, q)}}

\* Page without the skip
Page_NoSkip(s, page, limit) ==
  SubSeq(s, 1, IF limit < Len(s) THEN limit ELSE Len(s))

\* qb.skip(skip).take(limit)
Page(s, page, limit) ==
  LET skip == (page - 1) * limit
  IN  SubSeq(s, skip + 1, IF skip + limit < Len(s) THEN skip + limit ELSE Len(s))

\* Math.ceil(total / limit)
CeilDiv(a, b) == (a + b - 1) \div b

\* searchMusic(searchDto, userId) on a store nobody writes meanwhile
SearchMusic(dto, userId) ==
  /\ \E s \in Orderings(Rows(SearchQuery(dto, userId), store),
                        dto.sortBy, dto.sortOrder, dto.q) :
       result' = [op |-> "search", music |-> Page(s, dto.page, dto.limit),
                  total |-> Len(s), totalPages |-> CeilDiv(Len(s), dto.limit),
                  currentPage |-> dto.page]
  /\ query' = [op |-> "search", dto |-> dto, userId |-> userId]
  /\ UNCHANGED <<store, disk, nextId, nextPath, req>>

\* GetCount that counts every row of the table
GetCount_Unfiltered(qb, st) == Cardinality(DOMAIN st)

\* qb.getCount()
GetCount(qb, st) == Cardinality(Rows(qb, st))

\* searchMusic up to its first await: the query is built and getCount() is
\* answered from the store as it is now (at: the store the count saw)
SearchCount(dto, userId) ==
  /\ result' = [op |-> "count",
                total |-> GetCount(SearchQuery(dto, userId), store),
                at |-> store]
  /\ query' = [op |-> "search", dto |-> dto, userId |-> userId]
  /\ UNCHANGED <<store, disk, nextId, nextPath, req>>

\* getMany() is answered from the store as it is now and searchMusic returns
\* (observed: the number of matches the fetch saw)
SearchFetch ==
  /\ query.op = "search" /\ result.op = "count"
  /\ \E s \in Orderings(Rows(SearchQuery(query.dto, query.userId), store),
                        query.dto.sortBy, query.dto.sortOrder, query.dto.q) :
       result' = [op |-> "search",
                  music |-> Page(s, query.dto.page, query.dto.limit),
                  total |-> result.total,
                  totalPages |-> CeilDiv(result.total, query.dto.limit),
                  currentPage |-> query.dto.page,
                  observed |-> Len(s)]
  /\ UNCHANGED <<store, disk, nextId, nextPath, req, query>>

\* the same request sent again after searchMusic has answered it, the store
\* being what it was: the response keeps the first answer next to the second
RepeatSearch ==
  /\ query.op = "search" /\ result.op = "search"
  /\ \E s \in Orderings(Rows(SearchQuery(query.dto, query.userId), store),
                        query.dto.sortBy, query.dto.sortOrder, query.dto.q) :
       result' = [op |-> "repeat", first |-> result.music,
                  music |-> Page(s, query.dto.page, query.dto.limit),
                  total |-> Len(s),
                  totalPages |-> CeilDiv(Len(s), query.dto.limit),
                  currentPage |-> query.dto.page]
  /\ UNCHANGED <<store, disk, nextId, nextPath, req, query>>

\* -------------------------------------------------------- getSearchFilters
\* array.sort() of strings
RECURSIVE SortStrings(_)
SortStrings(S) ==
  IF S = {} THEN <<>>
  ELSE LET m == CHOOSE x \in S : \A y \in S \ {x} : StrLess(x, y)
       IN  <<m>> \o SortStrings(S \ {m})

\* qb.clone().select('DISTINCT music.col').where('music.col IS NOT NULL')
\*   .getRawMany(), then .map(...).filter(Boolean).sort()
DistinctValues(qb, col, st) ==
  LET rows == Rows(Where(qb, <<[k |-> "notnull", col |-> col]>>), st)
  IN  SortStrings({r[col] : r \in {x \in rows : Truthy(x[col])}})

SetMin(S) == IF S = {} THEN NullNum ELSE CHOOSE x \in S : \A y \in S : x <= y

SetMax(S) == IF S = {} THEN NullNum ELSE CHOOSE x \in S : \A y \in S : x >= y

\* qb.clone().select('MIN(music.col)').addSelect('MAX(music.col)')
\*   .where(fragment).getRawOne()
MinMax(qb, col, fragment, st) ==
  LET vals == {r[col] : r \in Rows(Where(qb, fragment), st)}
  IN  [min |-> SetMin(vals), max |-> SetMax(vals)]

\* Math.floor / Math.ceil of a decimal given in hundredths
FloorCs(x) == x \div 100

CeilCs(x) == (x + 99) \div 100

\* the response of getSearchFilters(userId)
SearchFilters(userId, st) ==
  LET qb  == Where(CreateQueryBuilder, <<[k |-> "owner", v |-> userId]>>)
      set(col) == <<[k |-> "numset", col |-> col]>>
      yr  == MinMax(qb, "year", set("year"), st)
      dr  == MinMax(qb, "duration", set("duration"), st)
      br  == MinMax(qb, "bpm", <<[k |-> "positive", col |-> "bpm"]>>, st)
      bt  == MinMax(qb, "bitrate", set("bitrate"), st)
  IN  [op |-> "filters",
       availableGenres    |-> DistinctValues(qb, "genre", st),
       availableArtists   |-> DistinctValues(qb, "artist", st),
       availableAlbums    |-> DistinctValues(qb, "album", st),
       availableKeys      |-> DistinctValues(qb, "key", st),
       availableMoods     |-> DistinctValues(qb, "mood", st),
       availableEncodings |-> DistinctValues(qb, "encoding", st),
       yearRange     |-> [min |-> OrElseNum(yr.min, 1900),
                          max |-> OrElseNum(yr.max, CurrentYear)],
       \* a decimal aggregate arrives as a string: "0.00" is truthy
       durationRange |-> [min |-> IF dr.min = NullNum THEN 0 ELSE FloorCs(dr.min),
                          max |-> IF dr.max = NullNum THEN 600 ELSE CeilCs(dr.max)],
       bpmRange      |-> [min |-> OrElseNum(br.min, 0),
                          max |-> OrElseNum(br.max, 200)],
       bitrateRange  |-> [min |-> OrElseNum(bt.min, 32000),
                          max |-> OrElseNum(bt.max, 320000)]]

GetSearchFilters(userId) ==
  /\ result' = SearchFilters(userId, store)
  /\ query' = [op |-> "filters", userId |-> userId]
  /\ UNCHANGED <<store, disk, nextId, nextPath, req>>

\* ---------------------------------------------------------- getSuggestions
\* select col, COUNT(*) ... where(LOWER(col) LIKE term AND col IS NOT NULL)
\*   .groupBy(col): the groups with their counts
Groups(qb, col, term, st) ==
  LET rows == Rows(Where(qb, <<[k |-> "ilike", col |-> col, v |-> term]>>), st)
  IN  {[value |-> v, count |-> Cardinality({r \in rows : r[col] = v})] :
         v \in {r[col] : r \in rows}}

\* .orderBy('count', 'DESC').limit(limit).getRawMany(): the first rows of
\* any arrangement by descending count
TopGroups(G, limit) ==
  LET n == IF Cardinality(G) < limit THEN Cardinality(G) ELSE limit
  IN  {s \in [1..n -> G] :
         /\ \A i, j \in 1..n : i # j => s[i] # s[j]
         /\ \A i, j \in 1..n : i < j => s[i].count >= s[j].count
         /\ \A g \in G : (\A i \in 1..n : s[i] # g) =>
                           \A i \in 1..n : s[i].count >= g.count}

\* rows.map((t) => ({ type, value: t.value, count: parseInt(t.count) }))
Typed(s, type) ==
  [i \in 1..Len(s) |-> [type |-> type, value |-> s[i].value, count |-> s[i].count]]

\* the merged list left in the order of the three sub-queries
SortByCount_Unsorted(s) == s

\* suggestions.sort((a, b) => b.count - a.count): a stable sort
RECURSIVE SortByCount(_)
SortByCount(s) ==
  IF s = <<>> THEN <<>>
  ELSE LET i == CHOOSE k \in 1..Len(s) :
                  /\ \A j \in 1..Len(s) : s[j].count <= s[k].count
                  /\ \A j \in 1..(k - 1) : s[j].count < s[k].count
       IN  <<s[i]>> \o SortByCount(SubSeq(s, 1, i - 1) \o SubSeq(s, i + 1, Len(s)))

\* a guard that rejects the absent query only
TooShort_AbsentOnly(q) == ~Truthy(q)

\* !q || q.trim().length < 2
TooShort(q) == ~Truthy(q) \/ Len(Trim(q)) < 2

\* getSuggestions({ q, limit }, userId)
GetSuggestions(q, limit, userId) ==
  /\ IF TooShort(q)
     THEN result' = [op |-> "suggest", suggestions |-> <<>>]
     ELSE LET term == Trim(q)
              qb   == Where(CreateQueryBuilder, <<[k |-> "owner", v |-> userId]>>)
          IN  \E t \in TopGroups(Groups(qb, "title", term, store), limit),
                 a \in TopGroups(Groups(qb, "artist", term, store), limit),
                 b \in TopGroups(Groups(qb, "album", term, store), limit) :
                result' = [op |-> "suggest",
                           suggestions |->
                             SubSeq(SortByCount(Typed(t, "title") \o Typed(a, "artist")
                                                 \o Typed(b, "album")), 1,
                                    IF Len(t) + Len(a) + Len(b) < limit
                                    THEN Len(t) + Len(a) + Len(b) ELSE limit)]
  /\ query' = [op |-> "suggest", q |-> q, limit |-> limit, userId |-> userId]
  /\ UNCHANGED <<store, disk, nextId, nextPath, req>>

\* ------------------------------------------------------ the ingestion spec
NoQuery == [op |-> "none"]

NoResult == [op |-> "none"]

Init ==
  /\ store = <<>>
  /\ disk = [p \in Paths |-> NoFile]
  /\ nextId = 1
  /\ nextPath = 1
  /\ req = [p \in Procs |-> Idle]
  /\ query = NoQuery
  /\ result = NoResult

Next ==
  \/ \E p \in Procs, u \in Users, present \in BOOLEAN, size \in {0, FileBytes},
        onDisk \in {NoFile, 0, FileBytes}, oname \in OriginalNames,
        dto \in UploadDtos :
       UploadStart(p, u, present, size, onDisk, oname, dto)
  \/ \E p \in Procs, outcome \in ParseOutcomes : UploadExtract(p, outcome)
  \/ \E p \in Procs, ok \in BOOLEAN, artOk \in BOOLEAN : UploadSave(p, ok, artOk)
  \/ \E p \in Procs, ok \in BOOLEAN : UploadAttach(p, ok)
  \/ \E p \in Procs, u \in Users, id \in Ids, present \in BOOLEAN,
        onDisk \in {NoFile, FileBytes} :
       CoverStart(p, u, id, present, onDisk)
  \/ \E p \in Procs : CoverFind(p)
  \/ \E p \in Procs, ok \in BOOLEAN : CoverSave(p, ok)
  \/ \E p \in Procs, u \in Users, id \in Ids : DeleteFind(p, u, id)
  \/ \E p \in Procs, ok \in BOOLEAN : DeleteRemove(p, ok)
  \/ \E p \in Procs : Finish(p)

Spec == Init /\ [][Next]_vars

\* -------------------------------------------------------- the query spec
\* The discovery queries are functions of the store: they are applied to
\* every catalog of up to MaxRecs records that uploads can have produced.
Calm == <<"C","a","l","m">>

Sad == <<"S","a","d">>

\* owner, title, artist, genre, year, duration, bpm, bitrate, mood of the
\* records drawn
PoolFields ==
  {<<"u1", RocketMan, Elton, Rock, 1972, 28150, 120, 128000, Calm>>,
   <<"u1", RocketMan, UnknownArtist, Jazz, NullNum, NullNum, NullNum, NullNum,
     NullStr>>,
   <<"u1", Blue, Elton, Jazz, 2005, 100, 90, 320000, <<>> >>,
   <<"u1", Blue, UnknownArtist, Rock, 2011, 0, 0, 0, Calm>>,
   <<"u2", RocketMan, Elton, Rock, 1972, 28150, 120, 128000, Sad>>,
   <<"u2", Blue, UnknownArtist, Jazz, 2005, NullNum, 90, NullNum, NullStr>>}

CatalogRecord(i, f) ==
  [NoRec EXCEPT !.id = i, !.userId = f[1], !.title = f[2], !.artist = f[3],
                !.album = UnknownAlbum, !.genre = f[4], !.year = f[5],
                !.duration = f[6], !.bpm = f[7], !.bitrate = f[8],
                !.mood = f[9],
                !.size = FileBytes, !.filePath = i, !.createdAt = i]

Catalogs ==
  UNION {{[i \in 1..n |-> CatalogRecord(i, f[i])] : f \in [1..n -> PoolFields]} :
           n \in 0..MaxRecs}

\* free text with the genre and artist filters
TextRequests ==
  {[DefaultSearch EXCEPT !.q = q, !.genre = g, !.artist = a] :
     q \in {NullStr, <<" ">>, <<"r","o","c">>,
            <<"m","a","n"," ","r","o","c","k","e","t">>},
     g \in {NullStr, <<"r","o","c","k">>},
     a \in {NullStr, <<"e","l","t">>}}

\* one range filter, with the bounds the validation admits: a year within
\* 1900..2030, a duration or BPM >= 0
RangeRequests ==
  {[DefaultSearch EXCEPT !.yearFrom = f, !.yearTo = t] :
     f \in {NullNum, 1972, 2000}, t \in {NullNum, 1972, 2010}}
  \cup {[DefaultSearch EXCEPT !.durationFrom = f, !.durationTo = t] :
          f \in {NullNum, 0, 100}, t \in {NullNum, 0, 300}}
  \cup {[DefaultSearch EXCEPT !.bpmFrom = f, !.bpmTo = t] :
          f \in {NullNum, 0, 100}, t \in {NullNum, 0, 120}}

\* a sort key and an order, with and without free text
SortRequests ==
  {[DefaultSearch EXCEPT !.q = q, !.sortOrder = o] :
     q \in {NullStr, <<" ">>, <<"r","o","c">>,
            <<"u","n","k","n","o","w","n">>},
     o \in {"ASC", "DESC"}}
  \cup {[DefaultSearch EXCEPT !.sortBy = k, !.sortOrder = o] :
          k \in {"title", "year", "duration", "createdAt"}, o \in {"ASC", "DESC"}}

\* a page of a given size
PageRequests ==
  {[DefaultSearch EXCEPT !.page = pg, !.limit = l, !.genre = g] :
     pg \in 1..3, l \in {1, 2}, g \in {NullStr, <<"r","o","c","k">>}}

SearchRequests == TextRequests \cup RangeRequests \cup SortRequests \cup PageRequests

SuggestQueries ==
  {NullStr, <<"r">>, <<" ","r","o"," ">>, <<"e","l","t">>, <<"k","n">>}

SuggestLimits == {1, 2}

InitQuery ==
  /\ store \in Catalogs
  /\ disk = [p \in Paths |-> IF p \in DOMAIN store THEN FileBytes ELSE NoFile]
  /\ nextId = Len(store) + 1
  /\ nextPath = Len(store) + 1
  /\ req = [p \in Procs |-> Idle]
  /\ query = NoQuery
  /\ result = NoResult

\* Each behaviour applies one query to its catalog: the queries write
\* nothing, so a second one would read what the first read.
NextQuery ==
  \/ \E dto \in SearchRequests, u \in Users :
       query = NoQuery /\ SearchMusic(dto, u)
  \/ \E u \in Users : query = NoQuery /\ GetSearchFilters(u)
  \/ \E q \in SuggestQueries, limit \in SuggestLimits, u \in Users :
       query = NoQuery /\ GetSuggestions(q, limit, u)

SpecQuery == InitQuery /\ [][NextQuery]_vars

\* --------------------------------------------------------- the race spec
\* One searchMusic call, in its two store queries, next to the uploads and
\* deletes of the ingestion spec.
NextRace ==
  \/ \E p \in Procs, u \in Users, present \in BOOLEAN, size \in {0, FileBytes},
        onDisk \in {NoFile, 0, FileBytes}, oname \in OriginalNames,
        dto \in UploadDtos :
       UploadStart(p, u, present, size, onDisk, oname, dto)
  \/ \E p \in Procs, outcome \in ParseOutcomes : UploadExtract(p, outcome)
  \/ \E p \in Procs, ok \in BOOLEAN, artOk \in BOOLEAN : UploadSave(p, ok, artOk)
  \/ \E p \in Procs, ok \in BOOLEAN : UploadAttach(p, ok)
  \/ \E p \in Procs, u \in Users, id \in Ids : DeleteFind(p, u, id)
  \/ \E p \in Procs, ok \in BOOLEAN : DeleteRemove(p, ok)
  \/ \E p \in Procs : Finish(p)
  \/ \E u \in Users : query = NoQuery /\ SearchCount(DefaultSearch, u)
  \/ SearchFetch

SpecRace == Init /\ [][NextRace]_vars

\* ------------------------------------------------------- the repeat spec
\* One searchMusic request is applied to a drawn catalog and then sent again.
NextRepeat ==
  \/ \E dto \in SearchRequests, u \in Users :
       query = NoQuery /\ SearchMusic(dto, u)
  \/ RepeatSearch

SpecRepeat == InitQuery /\ [][NextRepeat]_vars

\* -------------------------------------------------------- the merge spec
\* The record uploadMusic assembles is a function of the file handle, the
\* request body and the extracted metadata: it is applied to every body of
\* UserDtos and every outcome of the extraction.
UserDtos ==
  {[title |-> t, artist |-> a, album |-> b, genre |-> g, year |-> y] :
     t \in {NullStr, <<>>, Blue}, a \in {NullStr, Rock}, b \in {NullStr, Jazz},
     g \in {NullStr, Jazz}, y \in {NullNum, 0, 1999}}

\* the handle the upload interceptor passes for a stored, non-empty file
StoredFile(u, path, oname) ==
  [present |-> TRUE, path |-> path, size |-> FileBytes, onDisk |-> FileBytes,
   originalname |-> oname, filename |-> MusicStorageFilename(u, path, oname)]

\* extractMetadata settles and musicRepository.create({...}) builds the record
CreateFromUpload(u, path, oname, dto, outcome) ==
  LET file == StoredFile(u, path, oname)
      ex   == ExtractMetadata(file, outcome)
  IN  /\ query' = [op |-> "create", dto |-> dto, ex |-> ex, file |-> file]
      /\ result' = [op |-> "create", record |-> CreateRecord(file, dto, ex, u)]
      /\ UNCHANGED <<store, disk, nextId, nextPath, req>>

\* Each behaviour assembles one record.
NextMerge ==
  \E u \in Users, path \in Paths, oname \in OriginalNames, dto \in UserDtos,
     outcome \in ParseOutcomes :
    query = NoQuery /\ CreateFromUpload(u, path, oname, dto, outcome)

SpecMerge == Init /\ [][NextMerge]_vars

\* the records of the store that belong to owner u
Owned(u) == {store[i] : i \in {j \in DOMAIN store : store[j].userId = u}}

\* the elements of a sequence
Range(s) == {s[i] : i \in 1..Len(s)}

\* C1: searchMusic(request, ownerId) never returns a record whose owner
\* differs from ownerId, with or without a free-text query and filters.
C1_SearchOwnerScoped ==
  result.op = "search" =>
    \A r \in Range(result.music) : r.userId = query.userId

\* C2: every categorical value and every numeric bound getSearchFilters
\* returns comes from the records of the requesting owner only (or is the
\* default of an owner without values).
C2_FiltersOwnerScoped ==
  result.op = "filters" =>
    LET mine == Owned(query.userId)
    IN  /\ Range(result.availableGenres) \subseteq {r.genre : r \in mine}
        /\ Range(result.availableArtists) \subseteq {r.artist : r \in mine}
        /\ Range(result.availableAlbums) \subseteq {r.album : r \in mine}
        /\ result.yearRange.min \in {r.year : r \in mine} \cup {1900}
        /\ result.yearRange.max \in {r.year : r \in mine} \cup {CurrentYear}

\* C3: with a query of trimmed length >= 2, every suggestion is a value of
\* the requesting owner's records that contains the query, and its count is
\* the number of that owner's records with the value.
C3_SuggestionsOwnerScoped ==
  (result.op = "suggest" /\ Truthy(query.q) /\ Len(Trim(query.q)) >= 2) =>
    \A e \in Range(result.suggestions) :
      LET mine == {r \in Owned(query.userId) : r[e.type] = e.value}
      IN  /\ mine # {}
          /\ ILike(e.value, Trim(query.q))
          /\ e.count = Cardinality(mine)

\* C4: every record searchMusic returns passes every supplied filter and,
\* when q is not blank, the free-text clause.
C4_SearchConjunctive ==
  result.op = "search" =>
    \A r \in Range(result.music) :
      LET dto == query.dto
      IN  /\ Truthy(dto.genre) => IEquals(r.genre, dto.genre)
          /\ Truthy(dto.artist) => ILike(r.artist, dto.artist)
          /\ HasQuery(dto.q) =>
               (FullTextMatch(r, Trim(dto.q)) \/ SubstringMatch(r, Trim(dto.q)))

\* ---------------------------------------------------- ingestion properties
\* no request is between two of its steps
Quiescent == \A p \in Procs : req[p].pc \in {"idle", "done"}

\* the records that point at the audio file of request slot p
RecordsOf(p) == {i \in DOMAIN store : store[i].filePath = req[p].file.path}

\* C5: when the record save of uploadMusic fails, the stored audio file is
\* deleted, the error reaches the caller and the store has no record of the
\* upload.
C5_SaveFailureCleansUp ==
  \A p \in Procs :
    (req[p].op = "upload" /\ req[p].pc = "done" /\ req[p].failed = "save") =>
      /\ ~ExistsSync(disk, req[p].file.path)
      /\ req[p].status = "Error"
      /\ RecordsOf(p) = {}

C5_Witness ==
  \E p \in Procs :
    req[p].op = "upload" /\ req[p].pc = "done" /\ req[p].failed = "save"

\* the inputs C6 names: no handle, reported size 0, no file on disk, a
\* zero-byte file on disk
InvalidUpload(file) ==
  ~file.present \/ file.size = 0 \/ file.onDisk = NoFile \/ file.onDisk = 0

\* C6: uploadMusic with a missing handle, a reported size of 0, a file
\* absent from disk or a zero-byte file on disk fails with BadRequest at its
\* checks and creates no record.
C6_InvalidUploadRejected ==
  \A p \in Procs :
    (req[p].op = "upload" /\ InvalidUpload(req[p].file)) =>
      /\ req[p].pc = "done"
      /\ req[p].status = "BadRequest"
      /\ RecordsOf(p) = {}

C6_Witness ==
  \E p \in Procs :
    /\ req[p].op = "upload" /\ req[p].pc = "done"
    /\ req[p].file.present /\ req[p].file.size = FileBytes
    /\ req[p].file.onDisk = 0
    /\ req[p].status = "BadRequest"

\* C7: after uploadMusic has failed with an empty-upload BadRequest
\* (reported size 0, or zero-byte file on disk) the audio file of the upload
\* is not on disk.
C7_EmptyUploadLeavesNoFile ==
  \A p \in Procs :
    (/\ req[p].op = "upload" /\ req[p].pc = "done"
     /\ req[p].status = "BadRequest"
     /\ req[p].msg \in {"Uploaded file is empty",
                        "File upload failed - empty file saved to disk"}) =>
      ~ExistsSync(disk, req[p].file.path)

\* C8: once every request has returned, a record whose cover-art reference
\* is set points at a cover file that is on disk, also after a failed store
\* write.
C8_CoverReferenceValid ==
  Quiescent =>
    \A i \in DOMAIN store :
      store[i].coverArt # NoPath => ExistsSync(disk, store[i].coverArt)

\* C9: once every request has returned, every record of the store has its
\* audio file on disk, also after a failed store removal in deleteMusic.
C9_AudioOfVisibleRecordExists ==
  Quiescent => \A i \in DOMAIN store : ExistsSync(disk, store[i].filePath)

\* C10: when uploadMusic returns after the artwork could not be saved or
\* attached, it returns success, the record and the audio file are there,
\* and the returned record has no cover-art reference, like the stored one.
C10_ArtworkFailureNonFatal ==
  [][\A p \in Procs :
       (/\ req[p].op = "upload" /\ req[p].pc # "done"
        /\ req'[p].pc = "done"
        /\ req'[p].failed \in {"artwork", "attach"}) =>
         /\ req'[p].status = "ok"
         /\ req'[p].ret.id \in DOMAIN store'
         /\ ExistsSync(disk', req'[p].file.path)
         /\ req'[p].ret.coverArt = NoPath
         /\ store'[req'[p].ret.id].coverArt = NoPath]_vars

\* --------------------------------------------------------- merge properties
\* C11: for each of title, artist, album, genre and year on its own, the
\* record uploadMusic assembles holds the user's value when the user gave a
\* non-empty one (an empty string and the year 0 count as not given),
\* otherwise the extracted value when there is a non-empty one, otherwise the
\* default; a user value for one field leaves the other fields to extraction.
C11_MergePrecedence ==
  result.op = "create" =>
    LET d == query.dto
        e == query.ex
        r == result.record
        pick(f, def) ==
          IF Truthy(d[f]) THEN d[f] ELSE IF Truthy(e[f]) THEN e[f] ELSE def
    IN  /\ r.title = pick("title", extractTitleFromFilename(query.file.originalname))
        /\ r.artist = pick("artist", UnknownArtist)
        /\ r.album = pick("album", UnknownAlbum)
        /\ r.genre = pick("genre", UnknownGenre)
        /\ r.year = IF TruthyNum(d.year) THEN d.year
                    ELSE IF TruthyNum(e.year) THEN e.year ELSE CurrentYear

\* a body that gives only a title, merged with a fully tagged file
C11_Witness ==
  /\ result.op = "create"
  /\ query.dto.title = Blue /\ query.dto.artist = NullStr
  /\ query.dto.year = NullNum
  /\ query.ex.title = RocketMan
  /\ result.record.title = Blue
  /\ result.record.artist = Elton
  /\ result.record.year = 1972

\* C11 as stated: the record holds the user's value whenever the request
\* body carries one for the field, whatever the value.
C11_SuppliedValueWins ==
  result.op = "create" =>
    /\ \A f \in {"title", "artist", "album", "genre"} :
         query.dto[f] # NullStr => result.record[f] = query.dto[f]
    /\ query.dto.year # NullNum => result.record.year = query.dto.year

\* C12: when the decoding of a stored, non-empty file fails and the user
\* gives no title, uploadMusic succeeds unless the store refuses the record,
\* and the record it returns is, at that step, stored and titled after the
\* file name:
\* extension and generated prefix removed, underscores and hyphens turned
\* into spaces, every word capitalized.
C12_DecodeFailureFallsBack ==
  [][\A p \in Procs :
       (/\ req[p].op = "upload" /\ req[p].pc # "done" /\ req'[p].pc = "done"
        /\ req'[p].parse = "fail" /\ ~Truthy(req[p].dto.title)
        /\ req'[p].failed # "save") =>
         /\ req'[p].status = "ok"
         /\ req'[p].ret.id \in DOMAIN store'
         /\ store'[req'[p].ret.id].title = req'[p].ret.title
         /\ req'[p].ret.title =
              TitleCase(Trim(CollapseSpaces(ReplaceSeparators(
                  StripExt(SanitizeName(req[p].file.originalname))))))]_vars

C12_Witness ==
  \E p \in Procs :
    /\ req[p].op = "upload" /\ req[p].pc = "done" /\ req[p].parse = "fail"
    /\ req[p].status = "ok"
    /\ req[p].file.originalname = MySongMp3
    /\ req[p].ret.title = <<"M","y"," ","S","o","n","g">>

\* C13: at the step in which a successful uploadMusic returns, the record it
\* returns has a byte size > 0 and its audio file is on disk.
C13_ReturnedRecordHasAudio ==
  [][\A p \in Procs :
       (/\ req[p].op = "upload" /\ req[p].pc # "done"
        /\ req'[p].pc = "done" /\ req'[p].status = "ok") =>
         /\ req'[p].ret.size > 0
         /\ ExistsSync(disk', req'[p].ret.filePath)]_vars

C15_ForeignIdLooksAbsent ==
  [][\A p \in Procs :
       (/\ req[p].op = "cover" /\ req[p].pc = "find" /\ req'[p] # req[p]
        /\ \/ req[p].musicId \notin DOMAIN store
           \/ store[req[p].musicId].userId # req[p].user) =>
         /\ req'[p].pc = "done"
         /\ req'[p].status = "NotFound"
         /\ req'[p].msg = "Music file not found"
         /\ req'[p].ret = NoRec
         /\ store' = store
         /\ disk' = [disk EXCEPT ![req[p].file.path] = NoFile]]_vars

\* an uploadCoverArt on another owner's record has ended NotFound
C15_Witness ==
  \E p \in Procs :
    /\ req[p].op = "cover" /\ req[p].pc = "done" /\ req[p].status = "NotFound"
    /\ req[p].musicId \in DOMAIN store
    /\ store[req[p].musicId].userId # req[p].user
    /\ store[req[p].musicId].coverArt = NoPath
    /\ ~ExistsSync(disk, req[p].file.path)

\* C16: after the record update of uploadCoverArt has failed, the error has
\* reached the caller, the new cover file is no longer on disk and no record
\* points at it.
C16_CoverUpdateFailureCleansUp ==
  \A p \in Procs :
    (req[p].op = "cover" /\ req[p].pc = "done" /\ req[p].failed = "update") =>
      /\ req[p].status = "Error"
      /\ ~ExistsSync(disk, req[p].file.path)
      /\ \A i \in DOMAIN store : store[i].coverArt # req[p].file.path

\* the update failed for a cover file that had been written
C16_Witness ==
  \E p \in Procs :
    /\ req[p].op = "cover" /\ req[p].pc = "done" /\ req[p].failed = "update"
    /\ req[p].file.present /\ req[p].file.onDisk = FileBytes
    /\ req[p].musicId \in DOMAIN store

\* ---------------------------------------------------------- search properties
\* C17: for each range filter of searchMusic (year, duration, BPM) and every
\* bound the validation admits, 0 included, a returned record has a non-null
\* value that is >= the from bound when one is given and <= the to bound
\* when one is given (stated for requests without free text).
C17_RangeFiltersHonoured ==
  (result.op = "search" /\ ~HasQuery(query.dto.q)) =>
    \A r \in Range(result.music) :
      LET dto == query.dto
          within(v, from, to) ==
            /\ from # NullNum => (v # NullNum /\ from <= v)
            /\ to # NullNum => (v # NullNum /\ v <= to)
      IN  /\ within(r.year, dto.yearFrom, dto.yearTo)
          /\ within(r.duration, dto.durationFrom, dto.durationTo)
          /\ within(r.bpm, dto.bpmFrom, dto.bpmTo)

\* C18: when the trimmed free-text query is a case-insensitive substring of
\* the title, artist, album or album artist of a record of the owner, and
\* the record passes every other filter of the request, searchMusic counts
\* it and returns it (on the page that holds all matches), whether or not
\* the full-text match finds the partial word.
C18_SubstringMatchReturned ==
  (result.op = "search" /\ HasQuery(query.dto.q)) =>
    LET dto == query.dto
        within(v, from, to) ==
          /\ TruthyNum(from) => (v # NullNum /\ from <= v)
          /\ TruthyNum(to) => (v # NullNum /\ v <= to)
        passes(r) ==
          /\ Truthy(dto.genre) => IEquals(r.genre, dto.genre)
          /\ Truthy(dto.artist) => ILike(r.artist, dto.artist)
          /\ within(r.year, dto.yearFrom, dto.yearTo)
          /\ within(r.duration, dto.durationFrom, dto.durationTo)
          /\ within(r.bpm, dto.bpmFrom, dto.bpmTo)
        hits == {r \in Owned(query.userId) :
                   SubstringMatch(r, Trim(dto.q)) /\ passes(r)}
    IN  /\ result.total >= Cardinality(hits)
        /\ (dto.page = 1 /\ result.total <= dto.limit) =>
             hits \subseteq Range(result.music)

\* 'roc' is no word of 'Rocket Man', and the record is returned
C18_Witness ==
  /\ result.op = "search"
  /\ query.dto.q = <<"r","o","c">>
  /\ \E r \in Range(result.music) :
       /\ r.userId = query.userId
       /\ r.title = RocketMan
       /\ ~FullTextMatch(r, <<"r","o","c">>)

\* C19: with sort key relevance, whatever the requested sort order, the
\* records come by ranking score descending and, among equal scores, by
\* creation time descending when the query is not blank, and by creation
\* time descending when there is no query or a blank one.
C19_RelevanceOrder ==
  (result.op = "search" /\ query.dto.sortBy = "relevance") =>
    \A i, j \in 1..Len(result.music) :
      i < j =>
        LET a  == result.music[i]
            b  == result.music[j]
            q  == query.dto.q
        IN  IF HasQuery(q)
            THEN \/ Rank(a, Trim(q)) > Rank(b, Trim(q))
                 \/ /\ Rank(a, Trim(q)) = Rank(b, Trim(q))
                    /\ a.createdAt > b.createdAt
            ELSE a.createdAt > b.createdAt

\* ascending order was requested, and the higher score still comes first,
\* ahead of a record created later
C19_Witness ==
  /\ result.op = "search"
  /\ query.dto.sortBy = "relevance" /\ query.dto.sortOrder = "ASC"
  /\ HasQuery(query.dto.q)
  /\ Len(result.music) >= 2
  /\ Rank(result.music[1], Trim(query.dto.q)) >
       Rank(result.music[2], Trim(query.dto.q))
  /\ result.music[1].createdAt < result.music[2].createdAt

\* C20: on a store that does not change, total is the number of all
\* matching records, the page holds the matches from position
\* (page-1)*limit on, at most limit of them and each once, currentPage is
\* the requested page, totalPages is ceil(total/limit) and 0 when total is
\* 0; without query and filters total is the owner's record count and the
\* k-th record of the page is the one with (page-1)*limit + k - 1 newer
\* records of the owner.
C20_Pagination ==
  result.op = "search" =>
    LET dto     == query.dto
        matches == Rows(SearchQuery(dto, query.userId), store)
        skip    == (dto.page - 1) * dto.limit
        rest    == IF result.total > skip THEN result.total - skip ELSE 0
        plain   == [dto EXCEPT !.page = 1, !.limit = 20, !.sortOrder = "DESC"]
                     = DefaultSearch
    IN  /\ result.total = Cardinality(matches)
        /\ result.currentPage = dto.page
        /\ result.totalPages * dto.limit >= result.total
        /\ (result.totalPages - 1) * dto.limit < result.total
        /\ result.total = 0 => result.totalPages = 0
        /\ Len(result.music) = IF rest < dto.limit THEN rest ELSE dto.limit
        /\ Range(result.music) \subseteq matches
        /\ \A i, j \in 1..Len(result.music) :
             i # j => result.music[i] # result.music[j]
        /\ plain =>
             /\ result.total = Cardinality(Owned(query.userId))
             /\ \A k \in 1..Len(result.music) :
                  Cardinality({r \in Owned(query.userId) :
                                 r.createdAt > result.music[k].createdAt})
                    = skip + k - 1

\* the second page of size 1 of an owner with three records
C20_Witness ==
  /\ result.op = "search"
  /\ query.dto.page = 2 /\ query.dto.limit = 1
  /\ query.dto.genre = NullStr
  /\ result.total = 3 /\ result.totalPages = 3 /\ result.currentPage = 2
  /\ Len(result.music) = 1
  /\ result.music[1].createdAt = 2

C22_CountAgreesWithoutMutation ==
  [][(/\ query.op = "search" /\ result.op = "count"
      /\ result'.op = "search"
      /\ result.at = store) =>
       /\ result'.total = result'.observed
       /\ result'.total =
            Cardinality(Rows(SearchQuery(query.dto, query.userId), store))]_vars

\* an upload of the owner committed between the count and the fetch: the
\* total says 0 and the fetch saw one match
C22_Witness ==
  /\ result.op = "search"
  /\ result.total = 0
  /\ result.observed = 1
  /\ Len(result.music) = 1

\* ----------------------------------------------------------- facet properties
\* C23: for an owner none of whose records has a value for a numeric field
\* (an owner without records among them), getSearchFilters returns the
\* default range of the field: year 1900..current year, duration 0..600,
\* BPM 0..200, bitrate 32000..320000.
C23_FacetDefaults ==
  result.op = "filters" =>
    LET mine == Owned(query.userId)
        none(col) == \A r \in mine : r[col] = NullNum
    IN  /\ none("year") =>
             result.yearRange = [min |-> 1900, max |-> CurrentYear]
        /\ none("duration") =>
             result.durationRange = [min |-> 0, max |-> 600]
        /\ none("bpm") =>
             result.bpmRange = [min |-> 0, max |-> 200]
        /\ none("bitrate") =>
             result.bitrateRange = [min |-> 32000, max |-> 320000]

\* C24: for each numeric facet, when a record of the owner has a value (for
\* BPM a positive one), getSearchFilters returns the minimum and the maximum
\* of the owner's values (duration in whole seconds, rounded outwards), 0
\* included; stated for a store that holds the owner's records only.
C24_FacetMinMax ==
  (result.op = "filters" /\ \A i \in DOMAIN store : store[i].userId = query.userId) =>
    LET mine == Owned(query.userId)
        vals(col) == {r[col] : r \in {x \in mine : x[col] # NullNum}}
        bpms == {v \in vals("bpm") : v > 0}
    IN  /\ vals("year") # {} =>
             result.yearRange = [min |-> SetMin(vals("year")),
                                 max |-> SetMax(vals("year"))]
        /\ vals("duration") # {} =>
             result.durationRange = [min |-> FloorCs(SetMin(vals("duration"))),
                                     max |-> CeilCs(SetMax(vals("duration")))]
        /\ bpms # {} =>
             result.bpmRange = [min |-> SetMin(bpms), max |-> SetMax(bpms)]
        /\ vals("bitrate") # {} =>
             result.bitrateRange = [min |-> SetMin(vals("bitrate")),
                                    max |-> SetMax(vals("bitrate"))]

\* C25: each categorical facet of getSearchFilters is in ascending order
\* without duplicates, holds no null and no empty string, and holds exactly
\* the distinct non-empty values of the field in the owner's records.
C25_FacetValues ==
  result.op = "filters" =>
    LET mine == Owned(query.userId)
        good(list, col) ==
          /\ \A i, j \in 1..Len(list) : i < j => StrLess(list[i], list[j])
          /\ \A i \in 1..Len(list) : Truthy(list[i])
          /\ Range(list) = {r[col] : r \in {x \in mine : Truthy(x[col])}}
    IN  /\ good(result.availableGenres, "genre")
        /\ good(result.availableArtists, "artist")
        /\ good(result.availableAlbums, "album")
        /\ good(result.availableKeys, "key")
        /\ good(result.availableMoods, "mood")
        /\ good(result.availableEncodings, "encoding")

\* ------------------------------------------------------ suggestion properties
\* C26: with a query of trimmed length >= 2, getSuggestions returns at most
\* limit entries over the three types together, in order of non-increasing
\* count: the entries are the limit highest counts of the merged top-limit
\* candidates of the title, artist and album sub-queries.
C26_SuggestionsMergedSortedTruncated ==
  (result.op = "suggest" /\ Truthy(query.q) /\ Len(Trim(query.q)) >= 2) =>
    LET s   == result.suggestions
        lim == query.limit
        qb  == Where(CreateQueryBuilder, <<[k |-> "owner", v |-> query.userId]>>)
        G(col) == Groups(qb, col, Trim(query.q), store)
    IN  /\ Len(s) <= lim
        /\ \A i, j \in 1..Len(s) : i < j => s[i].count >= s[j].count
        /\ \A i, j \in 1..Len(s) : i # j => s[i] # s[j]
        /\ \E t \in TopGroups(G("title"), lim), a \in TopGroups(G("artist"), lim),
              b \in TopGroups(G("album"), lim) :
             LET M == Range(Typed(t, "title")) \cup Range(Typed(a, "artist"))
                        \cup Range(Typed(b, "album"))
             IN  /\ Range(s) \subseteq M
                 /\ Len(s) = IF Cardinality(M) < lim THEN Cardinality(M) ELSE lim
                 /\ \A e \in M \ Range(s) : \A i \in 1..Len(s) : s[i].count >= e.count

\* an album suggestion of count 2 returned alone under limit 1, ahead of the
\* artist candidate of count 1 that the merge placed before it
C26_Witness ==
  /\ result.op = "suggest"
  /\ query.q = <<"k","n">>
  /\ query.limit = 1
  /\ Cardinality({i \in DOMAIN store : store[i].artist = UnknownArtist}) = 1
  /\ result.suggestions = <<[type |-> "album", value |-> UnknownAlbum, count |-> 2]>>

\* C27: when the query is absent or its trimmed length is below 2,
\* getSuggestions returns the empty list, whatever the store holds.
C27_ShortQueryEmpty ==
  (result.op = "suggest" /\ (~Truthy(query.q) \/ Len(Trim(query.q)) < 2)) =>
    result.suggestions = <<>>

\* the one-letter query 'r' against a store whose records contain it
C27_Witness ==
  /\ result.op = "suggest"
  /\ query.q = <<"r">>
  /\ \E i \in DOMAIN store : ILike(store[i].title, <<"r">>)
  /\ result.suggestions = <<>>

\* ------------------------------------------------ concurrent request properties
\* C28: while a deleteMusic that completed successfully holds its response,
\* no record with the id it deleted is in the store, also when an
\* uploadCoverArt or the artwork attach of uploadMusic read the record before
\* the delete and saves it afterwards.
C28_DeletedStaysDeleted ==
  \A p \in Procs :
    (req[p].op = "delete" /\ req[p].pc = "done" /\ req[p].status = "ok") =>
      req[p].ent.id \notin DOMAIN store

\* C29: when two uploadCoverArt calls on the same owned record have both
\* returned successfully, the record references a cover file that is on disk
\* and the cover file of the other call is not left on disk unreferenced.
C29_ConcurrentCoversLeaveNoOrphan ==
  \A p, q \in Procs :
    (/\ p # q
     /\ req[p].op = "cover" /\ req[p].pc = "done" /\ req[p].status = "ok"
     /\ req[q].op = "cover" /\ req[q].pc = "done" /\ req[q].status = "ok"
     /\ req[p].musicId = req[q].musicId
     /\ req[p].musicId \in DOMAIN store) =>
      LET rec == store[req[p].musicId]
      IN  /\ rec.coverArt # NoPath
          /\ ExistsSync(disk, rec.coverArt)
          /\ \A path \in {req[p].file.path, req[q].file.path} :
               path # rec.coverArt => ~ExistsSync(disk, path)

\* C30: of two deleteMusic calls for the same record id and owner, at most
\* one completes successfully.
C30_AtMostOneDeleteSucceeds ==
  \A p, q \in Procs :
    (/\ p # q
     /\ req[p].op = "delete" /\ req[q].op = "delete"
     /\ req[p].musicId = req[q].musicId /\ req[p].user = req[q].user
     /\ req[p].pc = "done" /\ req[q].pc = "done") =>
      ~(req[p].status = "ok" /\ req[q].status = "ok")

====
